---- MODULE Spec2Model ----
(***************************************************************************)
(* A state-machine model of the camera-slider motion controller            *)
(* (app/controller/manager.py) with its planner (app/motion/planner.py),   *)
(* its easing functions (app/motion/easing.py) and the driver capability   *)
(* (app/hardware/base.py, sim_driver.py).                                  *)
(*                                                                         *)
(* Units.  Positions are integers counting half motor steps, so that       *)
(* positions which are not a whole number of steps are representable       *)
(* exactly; one millimetre is StepsPerMm steps.  Times are integers        *)
(* counting hundredths of a second (the controller samples at 0.02 s).     *)
(* Arithmetic is exact where the program uses binary floating point.       *)
(* Sleep durations and pulse periods do not appear: the model is untimed,  *)
(* and a wall-clock comparison is a nondeterministic choice.               *)
(***************************************************************************)
EXTENDS Integers, Sequences, FiniteSets, TLC

(***************************************************************************)
(* Bounds of the model (scaled-down configuration and input sizes).        *)
(***************************************************************************)
TravelMm == 2
StepsPerMm == 1
MaxCmds == 2
MaxKfs == 3
MaxDt == 2
\* Significant bits of a float in the model (a Python float has 53).
FloatBits == 3

(***************************************************************************)
(* Program constants.                                                      *)
(***************************************************************************)
HomeExtraMm == 10
BackoffMm == 5
ReapproachMm == 10
RunDt == 2

(***************************************************************************)
(* Arithmetic helpers.                                                     *)
(***************************************************************************)
Abs(x) == IF x < 0 THEN -x ELSE x

Min2(a, b) == IF a < b THEN a ELSE b

Max2(a, b) == IF a > b THEN a ELSE b

RECURSIVE Gcd(_, _)
Gcd(a, b) == IF b = 0 THEN a ELSE Gcd(b, a % b)

\* Python's round() of the non-negative rational n/d: to nearest, ties to even.
RoundHalfEven(n, d) ==
    LET q == n \div d
        r == n % d
    IN  IF 2 * r < d THEN q
        ELSE IF 2 * r > d THEN q + 1
        ELSE IF q % 2 = 0 THEN q ELSE q + 1

\* The weight of the last significant bit of a float holding the natural n.
RECURSIVE Ulp(_)
Ulp(n) == IF n < 2 ^ FloatBits THEN 1 ELSE 2 * Ulp(n \div 2)

\* The float nearest to the integer x (ties to even): what every float
\* addition, subtraction and multiplication returns for the exact result x.
Fl(x) ==
    LET r == RoundHalfEven(Abs(x), Ulp(Abs(x))) * Ulp(Abs(x))
    IN  IF x < 0 THEN 0 - r ELSE r

\* The position units one pulse moves: 1 / steps_per_mm, in half steps.
StepUnits == 2

\* Position units in one millimetre, and the travel.
MmUnits(mm) == mm * StepsPerMm * StepUnits

TravelUnits == MmUnits(TravelMm)

\* max(0.0, min(x, cfg.travel_mm))
ClampTravel(x) == Max2(0, Min2(x, TravelUnits))

\* int(round(abs(distance_mm) * steps_per_mm)) for a distance in position units
StepsFor(distUnits) == RoundHalfEven(Abs(distUnits), StepUnits)

(***************************************************************************)
(* Motion profiles.  A keyframe is [t, pos, ease]; an ease is [type, p],    *)
(* with the control points p = (x1, y1, x2, y2) counted in thirds.  The     *)
(* profiles the controller runs are valid (validate_keyframes accepts       *)
(* them): two or more keyframes, strictly increasing t, 0 <= pos <= length. *)
(***************************************************************************)
\* Ease(), the default
LinearEase == [type |-> "linear", p |-> << >>]

\* Ease(type="cubic-bezier", p=[1/3, y1/3, 2/3, y2/3])
BezierEase(y1, y2) == [type |-> "cubic-bezier", p |-> << 1, y1, 2, y2 >>]

\* Ease.validate_bezier: what it accepts
validate_bezier(e) == e.type = "cubic-bezier" => Len(e.p) = 4

KfEase(t, p, e) == [t |-> t, pos |-> p, ease |-> e]

Kf(t, p) == KfEase(t, p, LinearEase)

\* 1: one segment ending between two steps (2 steps minus one unit)
\* 2: first keyframe later than t = 0; two segments, from 1 mm back to 0
\* 3: ends beyond the travel (length_mm > travel_mm)
Profiles ==
    << [length |-> MmUnits(TravelMm),
        keyframes |-> << Kf(0, 0), Kf(RunDt, 2 * StepUnits - 1) >>],
       [length |-> MmUnits(TravelMm),
        keyframes |-> << Kf(RunDt, MmUnits(1)), Kf(2 * RunDt, 0) >>],
       [length |-> MmUnits(TravelMm + 1),
        keyframes |-> << Kf(0, MmUnits(TravelMm) - StepUnits),
                         Kf(RunDt, MmUnits(TravelMm) + StepUnits) >>] >>

ProfileIds == 1 .. Len(Profiles)

\* The profiles Prime is submitted with: a start at 0 and a start 1 mm out.
PrimeProfileIds == {1, 2}

\* linear(u) for u = num/den, as a fraction over den
linear(num, den) ==
    IF num <= 0 THEN 0 ELSE IF num >= den THEN den ELSE num

\* by(t) of CubicBezier.sample for t = n/d, as a numerator over d^3
By(cp, n, d) ==
    (d - n) * (d - n) * n * cp[2] + (d - n) * n * n * cp[4] + n * n * n

\* CubicBezier.sample(u) for u = num/den, as a fraction.  With x1 = 1/3 and
\* x2 = 2/3, bx(t) = t and dx(t) = 1: the Newton iteration starts at t = u,
\* finds x_t - u = 0 and leaves t = u, and the bisection is skipped.
CubicBezierSample(cp, num, den) ==
    IF num <= 0 THEN [num |-> 0, den |-> 1]
    ELSE IF num >= den THEN [num |-> 1, den |-> 1]
    ELSE [num |-> By(cp, num, den), den |-> den * den * den]

\* _ease_fn(kf)(u): the easing of the arrival keyframe at u = num/den, as a
\* fraction
EaseFn(kf, num, den) ==
    IF kf.ease.type = "cubic-bezier"
    THEN CubicBezierSample(kf.ease.p, num, den)
    ELSE [num |-> linear(num, den), den |-> den]

\* The segment index the inner while loop of sample_profile stops at.
RECURSIVE FindSegment(_, _, _)
FindSegment(kfs, idx, t) ==
    IF idx < Len(kfs) - 1 /\ t > kfs[idx + 1].t
    THEN FindSegment(kfs, idx + 1, t)
    ELSE idx

\* One sample of sample_profile at time t with seg_start_idx = idx (1-based):
\* y = k0.pos_mm + (k1.pos_mm - k0.pos_mm) * f(u), each operation rounded.
SampleAt(kfs, idx, t) ==
    LET k0 == kfs[idx]
        k1 == kfs[idx + 1]
        den == IF k1.t = k0.t THEN 1 ELSE k1.t - k0.t
        raw == IF k1.t = k0.t THEN 0 ELSE t - k0.t
        u == IF raw < 0 THEN 0 ELSE IF raw > den THEN den ELSE raw
        f == EaseFn(k1, u, den)
    IN  Fl(k0.pos + Fl((Fl(k1.pos - k0.pos) * f.num) \div f.den))

\* The main loop of sample_profile from time t on.
RECURSIVE SampleLoop(_, _, _, _, _)
SampleLoop(kfs, dt, total, idx, t) ==
    IF t <= total
    THEN LET i == FindSegment(kfs, idx, t)
         IN  << [t |-> t, pos |-> SampleAt(kfs, i, t)] >>
             \o SampleLoop(kfs, dt, total, i, t + dt)
    ELSE << >>

\* sample_profile(profile, dt): the sequence of samples [t, pos].
sample_profile(profile, dt) ==
    LET kfs == profile.keyframes
        last == kfs[Len(kfs)]
        total == IF last.t <= 0 THEN 1 ELSE last.t
        body == SampleLoop(kfs, dt, total, 1, 0)
    IN  IF body[Len(body)].t < last.t
        THEN Append(body, [t |-> last.t, pos |-> last.pos])
        ELSE body

(***************************************************************************)
(* MotionProfile construction.                                             *)
(***************************************************************************)
\* list.sort(key=lambda k: k.t) is stable: k goes after the keyframes of the
\* sorted list whose t is not greater.
RECURSIVE InsertByT(_, _)
InsertByT(sorted, k) ==
    IF sorted = << >> THEN << k >>
    ELSE IF k.t < Head(sorted).t THEN << k >> \o sorted
    ELSE << Head(sorted) >> \o InsertByT(Tail(sorted), k)

RECURSIVE SortByT(_)
SortByT(kfs) ==
    IF kfs = << >> THEN << >>
    ELSE InsertByT(SortByT(SubSeq(kfs, 1, Len(kfs) - 1)), kfs[Len(kfs)])

\* A validator that compares the times with < instead of <=.
ValidateKeyframesLax(length, kfs) ==
    IF Len(kfs) < 2
    THEN [ok |-> FALSE, keyframes |-> kfs]
    ELSE LET s == SortByT(kfs)
             bad(i) == \/ s[i].t < (IF i = 1 THEN 0 - 1 ELSE s[i - 1].t)
                       \/ s[i].pos < 0
                       \/ s[i].pos > length
         IN  [ok |-> ~(\E i \in 1 .. Len(s) : bad(i)), keyframes |-> s]

\* MotionProfile.validate_keyframes: whether it returns (ok) or raises, and
\* the keyframes as it leaves them.
validate_keyframes(length, kfs) ==
    IF Len(kfs) < 2
    THEN [ok |-> FALSE, keyframes |-> kfs]
    ELSE LET s == SortByT(kfs)
             bad(i) == \/ s[i].t <= (IF i = 1 THEN 0 - 1 ELSE s[i - 1].t)
                       \/ s[i].pos < 0
                       \/ s[i].pos > length
         IN  [ok |-> ~(\E i \in 1 .. Len(s) : bad(i)), keyframes |-> s]

(***************************************************************************)
(* Commands.                                                               *)
(***************************************************************************)
JogDistancesMm == {0 - (TravelMm + 1), 1}

NoCmd == [id |-> 0, type |-> "none", dist |-> 0, prof |-> 0]

Command(id, type, dist, prof) ==
    [id |-> id, type |-> type, dist |-> dist, prof |-> prof]

\* A pulse loop: the iterations left, the direction, whether this iteration's
\* pre-pulse checks have passed, and the endstop reading they made.
NoLoop == [rem |-> 0, dir |-> FALSE, armed |-> FALSE, pressed |-> FALSE]

Frac(n, d) == LET g == Gcd(n, d) IN [num |-> n \div g, den |-> d \div g]

FracLess(a, b) == a.num * b.den < b.num * a.den

One == [num |-> 1, den |-> 1]

Zero == [num |-> 0, den |-> 1]

VARIABLES
    queue,       \* _cmd_q: the FIFO of pending commands
    stopEvent,   \* _stop_event
    status,      \* status
    homed,       \* homed
    error,       \* error: "none" stands for None
    progress,    \* progress, a fraction [num, den]
    pos,         \* current_pos_mm, in position units
    enabled,     \* the driver's enable state (last enable() call)
    wpc,         \* the worker thread's position in _worker_loop
    cur,         \* the worker's local cmd
    loop,        \* the running pulse loop: steps left, direction, check passed
    seg,         \* the index i of _do_run_profile's outer loop (0-based)
    spc,         \* the position of a caller inside stop()
    nextId,      \* number of commands submitted so far, plus one
    stops,       \* whether stop() has been called
    obs,         \* history of the command in execution
    last,        \* history of the command that finished last, while the worker waits
    started,     \* ids of the commands in the order their handlers started
    done,        \* ids of the commands whose handlers have ended
    stopMark,    \* ids not yet started when the stop() call in progress began
    barred,      \* ids not yet started when a stop() call that has returned began
    plan,        \* a MotionProfile under construction and its samples
    driver       \* the driver _init_driver returned: "gpio" or "sim"

vars == << queue, stopEvent, status, homed, error, progress, pos, enabled,
           wpc, cur, loop, seg, spc, nextId, stops,
           obs, last, started, done, stopMark, barred, plan, driver >>

prog == << status, homed, error, progress, pos, enabled >>

hist == << obs, last, started, done >>

\* cancelSeen: a read of _stop_event by this command returned True
\* stopInCmd: a stop() call set the flag after this command was dequeued
\* pulsesAfterStop: pulses emitted since then (counted up to 2)
\* missed: a pre-pulse check made since then found the flag clear
\* homedBefore: homed when the command was dequeued
\* autoHome: the command is a Prime that homes first
\* homeCancel: line 180 of _do_prime found the flag set
NoObs ==
    [cancelSeen |-> FALSE, stopInCmd |-> FALSE, pulsesAfterStop |-> 0,
     missed |-> FALSE, homedBefore |-> FALSE, autoHome |-> FALSE,
     homeCancel |-> FALSE]

NoLast == [id |-> 0, type |-> "none", how |-> "none", obs |-> NoObs]

\* No profile is under construction.
NoPlan ==
    [stage |-> "none", length |-> 0, given |-> << >>, keyframes |-> << >>,
     dt |-> 0, samples |-> << >>, pulses |-> 0]

\* SliderController.__init__
ControllerInit ==
    /\ queue = << >>
    /\ stopEvent = FALSE
    /\ status = "idle"
    /\ homed = FALSE
    /\ error = "none"
    /\ progress = Zero
    /\ pos = 0
    /\ enabled = FALSE
    /\ wpc = "get"
    /\ cur = NoCmd
    /\ loop = NoLoop
    /\ seg = 0
    /\ spc = "idle"
    /\ nextId = 1
    /\ stops = FALSE
    /\ obs = NoObs
    /\ last = NoLast
    /\ started = << >>
    /\ done = {}
    /\ stopMark = {}
    /\ barred = {}

Init == ControllerInit /\ plan = NoPlan /\ driver = "gpio"

(***************************************************************************)
(* The caller side: enqueue_* and stop().                                  *)
(***************************************************************************)
\* A put that adds at the head of the queue.
PutFirst(q, cmd) == << cmd >> \o q

\* Queue.put
Put(q, cmd) == Append(q, cmd)

Enqueue(cmd) ==
    /\ nextId <= MaxCmds
    /\ queue' = Put(queue, cmd)
    /\ nextId' = nextId + 1
    /\ UNCHANGED << stopEvent, prog, wpc, cur, loop, seg, spc, stops,
                    hist, stopMark, barred >>
    /\ UNCHANGED << plan, driver >>

enqueue_home == Enqueue(Command(nextId, "home", 0, 0))

enqueue_jog ==
    \E d \in JogDistancesMm : Enqueue(Command(nextId, "jog", MmUnits(d), 0))

enqueue_run_profile ==
    \E p \in ProfileIds : Enqueue(Command(nextId, "run_profile", 0, p))

enqueue_prime ==
    \E p \in PrimeProfileIds : Enqueue(Command(nextId, "prime", 0, p))

\* The ids of the commands submitted and not yet started by the worker.
Unstarted ==
    {queue[i].id : i \in 1 .. Len(queue)}
        \cup (IF wpc = "clear" THEN {cur.id} ELSE {})

\* A stop() that also clears the error.
StopSetClearsError ==
    /\ spc = "idle"
    /\ stopEvent' = TRUE
    /\ spc' = "empty"
    /\ stops' = TRUE
    /\ stopMark' = Unstarted
    /\ obs' = IF wpc # "get" THEN [obs EXCEPT !.stopInCmd = TRUE] ELSE obs
    /\ error' = "none"
    /\ UNCHANGED << queue, status, homed, progress, pos, enabled, wpc, cur,
                    loop, seg, nextId, last, started, done, barred >>
    /\ UNCHANGED << plan, driver >>

\* stop(), line 83: self._stop_event.set()
StopSet ==
    /\ spc = "idle"
    /\ stopEvent' = TRUE
    /\ spc' = "empty"
    /\ stops' = TRUE
    /\ stopMark' = Unstarted
    /\ obs' = IF wpc # "get" THEN [obs EXCEPT !.stopInCmd = TRUE] ELSE obs
    /\ UNCHANGED << queue, prog, wpc, cur, loop, seg, nextId,
                    last, started, done, barred >>
    /\ UNCHANGED << plan, driver >>

\* stop(), line 85: while not self._cmd_q.empty()
StopEmpty ==
    /\ spc = "empty"
    /\ IF queue = << >>
       THEN /\ spc' = "idle"
            /\ barred' = barred \cup stopMark
            /\ stopMark' = {}
       ELSE /\ spc' = "get_nowait"
            /\ UNCHANGED << barred, stopMark >>
    /\ UNCHANGED << queue, stopEvent, prog, wpc, cur, loop, seg, nextId,
                    stops, hist >>
    /\ UNCHANGED << plan, driver >>

\* stop(), lines 86-89: get_nowait(), leaving the loop on queue.Empty
StopGetNowait ==
    /\ spc = "get_nowait"
    /\ IF queue = << >>
       THEN /\ spc' = "idle"
            /\ barred' = barred \cup stopMark
            /\ stopMark' = {}
            /\ UNCHANGED queue
       ELSE /\ spc' = "empty"
            /\ queue' = Tail(queue)
            /\ UNCHANGED << barred, stopMark >>
    /\ UNCHANGED << stopEvent, prog, wpc, cur, loop, seg, nextId,
                    stops, hist >>
    /\ UNCHANGED << plan, driver >>

(***************************************************************************)
(* The worker thread: _worker_loop and the command handlers.  A step of    *)
(* the worker holds at most one access to the state shared with callers    *)
(* (the queue and the stop flag).                                          *)
(***************************************************************************)
LoopPcs == {"seek1", "backoff", "seek2", "jog_move", "prime_move", "run_pulse"}

\* The loops of _seek_endstop and _do_run_profile clamp the position after
\* each pulse; the loop of _relative_move does not.
ClampingPcs == {"seek1", "seek2", "run_pulse"}

callerVars == << spc, nextId, stops, stopMark, barred >>

\* steps_limit of _seek_endstop(max_travel_mm = mm)
SeekSteps(mm) == StepsFor(MmUnits(mm))

SeekLoop(mm) ==
    [rem |-> SeekSteps(mm), dir |-> FALSE, armed |-> FALSE, pressed |-> FALSE]

\* A _relative_move that sets the direction pin the wrong way round.
RelativeMoveLoopReversed(p, distance) ==
    LET target == ClampTravel(p + distance)
        d == target - p
    IN  [rem |-> IF d = 0 THEN 0 ELSE StepsFor(d),
         dir |-> d < 0, armed |-> FALSE, pressed |-> FALSE]

\* _relative_move(distance), lines 289-295: the clamped target, the step
\* count and the direction, from the current position p.
RelativeMoveLoop(p, distance) ==
    LET target == ClampTravel(p + distance)
        d == target - p
    IN  [rem |-> IF d = 0 THEN 0 ELSE StepsFor(d),
         dir |-> d > 0, armed |-> FALSE, pressed |-> FALSE]

\* Where control goes when the pulse loop at pc ends, and the loop it enters.
AfterLoopPc(pc) ==
    CASE pc = "seek1" -> "home_chk"
      [] pc = "backoff" -> "seek2"
      [] pc = "seek2" -> "home_end"
      [] pc = "jog_move" -> "jog_end"
      [] pc = "prime_move" -> "prime_end"
      [] pc = "run_pulse" -> "run_segend"

AfterLoopLoop(pc) ==
    IF pc = "backoff" THEN SeekLoop(ReapproachMm) ELSE NoLoop

\* Enter the loop lp at pc, or skip it when it has no iterations.
EnterLoop(pc, lp) ==
    IF lp.rem > 0
    THEN /\ wpc' = pc
         /\ loop' = lp
    ELSE /\ wpc' = AfterLoopPc(pc)
         /\ loop' = AfterLoopLoop(pc)

\* The worker is back at self._cmd_q.get(); how is "returned" or "fault".
Finish(how, seen) ==
    /\ wpc' = "get"
    /\ cur' = NoCmd
    /\ loop' = NoLoop
    /\ seg' = 0
    /\ obs' = NoObs
    /\ done' = done \cup {cur.id}
    /\ last' = [id |-> cur.id, type |-> cur.type, how |-> how,
                obs |-> [obs EXCEPT !.cancelSeen = @ \/ seen,
                                    !.homeCancel = @ \/ (seen /\ wpc = "prime_chk")]]

\* _worker_loop, line 124: cmd = self._cmd_q.get()
WorkerGet ==
    /\ wpc = "get"
    /\ queue # << >>
    /\ cur' = Head(queue)
    /\ queue' = Tail(queue)
    /\ wpc' = "clear"
    /\ obs' = [NoObs EXCEPT !.homedBefore = homed,
                            !.autoHome = (Head(queue).type = "prime" /\ ~homed)]
    /\ last' = NoLast
    /\ UNCHANGED << stopEvent, prog, loop, seg, callerVars, started, done >>
    /\ UNCHANGED << plan, driver >>

\* A clear() that leaves the flag as it was.
KeptFlag(flag) == flag

\* self._stop_event.clear(), line 125
ClearedFlag(flag) == FALSE

\* _worker_loop, lines 125-135: clear the stop flag and the error, then
\* enter the handler and run it up to its first loop
WorkerClear ==
    /\ wpc = "clear"
    /\ stopEvent' = ClearedFlag(stopEvent)
    /\ error' = "none"
    /\ started' = Append(started, cur.id)
    /\ CASE cur.type = "home" ->
              \* _do_home, lines 143-147
              /\ status' = "homing"
              /\ enabled' = TRUE
              /\ EnterLoop("seek1", SeekLoop(TravelMm + HomeExtraMm))
         [] cur.type = "jog" ->
              \* _do_jog, lines 163-166
              /\ status' = "jogging"
              /\ enabled' = TRUE
              /\ EnterLoop("jog_move", RelativeMoveLoop(pos, cur.dist))
         [] cur.type = "prime" /\ ~homed ->
              \* _do_prime, lines 176-179, into _do_home
              /\ status' = "homing"
              /\ enabled' = TRUE
              /\ EnterLoop("seek1", SeekLoop(TravelMm + HomeExtraMm))
         [] cur.type = "prime" /\ homed ->
              \* _do_prime, lines 176-178
              /\ status' = "priming"
              /\ wpc' = "prime_tgt"
              /\ UNCHANGED << enabled, loop >>
         [] cur.type = "run_profile" ->
              \* _do_run_profile, lines 205-211
              /\ status' = "running"
              /\ enabled' = TRUE
              /\ wpc' = "run_seg"
              /\ UNCHANGED loop
    /\ stopMark' = stopMark \ {cur.id}
    /\ UNCHANGED << queue, homed, progress, pos, cur, seg,
                    spc, nextId, stops, barred, obs, last, done >>
    /\ UNCHANGED << plan, driver >>

\* read_min_endstop() and read_max_endstop(): the input pin of the GPIO
\* driver reads either way; the simulator's min_pressed and max_pressed
\* are False and nothing sets them.
ReadEndstop == IF driver = "sim" THEN {FALSE} ELSE BOOLEAN

\* Pre-pulse checks that read the endstop and go on to the pulse whatever it
\* reads.
LoopCheckIgnoresEndstop ==
    /\ wpc \in LoopPcs
    /\ ~loop.armed
    /\ IF stopEvent
       THEN /\ obs' = [obs EXCEPT !.cancelSeen = TRUE]
            /\ wpc' = AfterLoopPc(wpc)
            /\ loop' = AfterLoopLoop(wpc)
       ELSE \E pressed \in ReadEndstop, late \in BOOLEAN :
              /\ late => wpc = "run_pulse" /\ ~pressed
              /\ IF late
                 THEN /\ wpc' = AfterLoopPc(wpc)
                      /\ loop' = AfterLoopLoop(wpc)
                 ELSE /\ loop' = [loop EXCEPT !.armed = TRUE,
                                              !.pressed = pressed]
                      /\ UNCHANGED wpc
              /\ obs' = [obs EXCEPT !.missed = @ \/ obs.stopInCmd]
    /\ UNCHANGED << queue, stopEvent, prog, cur, seg, callerVars,
                    last, started, done >>
    /\ UNCHANGED << plan, driver >>

\* The checks before a pulse: the stop flag, the endstop of the direction of
\* travel (any reading), and in _do_run_profile the segment deadline (the
\* clock may or may not have passed it).
LoopCheck ==
    /\ wpc \in LoopPcs
    /\ ~loop.armed
    /\ IF stopEvent
       THEN /\ obs' = [obs EXCEPT !.cancelSeen = TRUE]
            /\ wpc' = AfterLoopPc(wpc)
            /\ loop' = AfterLoopLoop(wpc)
       ELSE \E pressed \in ReadEndstop, late \in BOOLEAN :
              /\ late => wpc = "run_pulse" /\ ~pressed
              /\ IF pressed \/ late
                 THEN /\ wpc' = AfterLoopPc(wpc)
                      /\ loop' = AfterLoopLoop(wpc)
                 ELSE /\ loop' = [loop EXCEPT !.armed = TRUE]
                      /\ UNCHANGED wpc
              /\ obs' = [obs EXCEPT !.missed = @ \/ obs.stopInCmd]
    /\ UNCHANGED << queue, stopEvent, prog, cur, seg, callerVars,
                    last, started, done >>
    /\ UNCHANGED << plan, driver >>

\* The position after one pulse in direction dir from p, at loop pc.
PulsePos(pc, p, dir) ==
    LET q == IF dir THEN p + StepUnits ELSE p - StepUnits
    IN  IF pc \in ClampingPcs THEN ClampTravel(q) ELSE q

\* A loop iteration that does not count towards the step limit.
LoopPulseUncounted ==
    /\ wpc \in LoopPcs
    /\ loop.armed
    /\ pos' = PulsePos(wpc, pos, loop.dir)
    /\ obs' = IF obs.stopInCmd
              THEN [obs EXCEPT !.pulsesAfterStop = Min2(@ + 1, 2)]
              ELSE obs
    /\ loop' = [loop EXCEPT !.armed = FALSE]
    /\ UNCHANGED << queue, stopEvent, status, homed, error, progress, enabled,
                    wpc, cur, seg, callerVars, last, started, done >>
    /\ UNCHANGED << plan, driver >>

\* pulse_step, the position update and the sleep of one loop iteration
LoopPulse ==
    /\ wpc \in LoopPcs
    /\ loop.armed
    /\ pos' = PulsePos(wpc, pos, loop.dir)
    /\ obs' = IF obs.stopInCmd
              THEN [obs EXCEPT !.pulsesAfterStop = Min2(@ + 1, 2)]
              ELSE obs
    /\ IF loop.rem > 1
       THEN /\ loop' = [loop EXCEPT !.rem = @ - 1, !.armed = FALSE]
            /\ UNCHANGED wpc
       ELSE /\ wpc' = AfterLoopPc(wpc)
            /\ loop' = AfterLoopLoop(wpc)
    /\ UNCHANGED << queue, stopEvent, status, homed, error, progress, enabled,
                    cur, seg, callerVars, last, started, done >>
    /\ UNCHANGED << plan, driver >>

\* Return from _do_home: to its caller _do_prime, or to the worker loop.
HomeReturn(seen) ==
    IF cur.type = "prime"
    THEN /\ wpc' = "prime_chk"
         /\ loop' = NoLoop
         /\ obs' = [obs EXCEPT !.cancelSeen = @ \/ seen]
         /\ UNCHANGED << cur, seg, last, done >>
    ELSE Finish("returned", seen)

\* _do_home, lines 148-153: the cancellation check after the first seek
HomeCheck ==
    /\ wpc = "home_chk"
    /\ IF stopEvent
       THEN /\ enabled' = FALSE
            /\ status' = "idle"
            /\ HomeReturn(TRUE)
       ELSE /\ EnterLoop("backoff", RelativeMoveLoop(pos, MmUnits(BackoffMm)))
            /\ UNCHANGED << enabled, status, cur, seg, obs, last, done >>
    /\ UNCHANGED << queue, stopEvent, homed, error, progress, pos,
                    callerVars, started >>
    /\ UNCHANGED << plan, driver >>

\* An end of _do_home that keeps the position the re-approach reached.
HomeEndKeepsPos ==
    /\ wpc = "home_end"
    /\ homed' = TRUE
    /\ enabled' = FALSE
    /\ status' = "idle"
    /\ HomeReturn(FALSE)
    /\ UNCHANGED << queue, stopEvent, error, progress, pos, callerVars, started >>
    /\ UNCHANGED << plan, driver >>

\* _do_home, lines 156-160
HomeEnd ==
    /\ wpc = "home_end"
    /\ pos' = 0
    /\ homed' = TRUE
    /\ enabled' = FALSE
    /\ status' = "idle"
    /\ HomeReturn(FALSE)
    /\ UNCHANGED << queue, stopEvent, error, progress, callerVars, started >>
    /\ UNCHANGED << plan, driver >>

\* _do_jog returning with the driver left enabled.
JogEndLeftEnabled ==
    /\ wpc = "jog_end"
    /\ status' = "idle"
    /\ Finish("returned", FALSE)
    /\ UNCHANGED << queue, stopEvent, homed, error, progress, pos, enabled,
                    callerVars, started >>
    /\ UNCHANGED << plan, driver >>

\* _do_jog, lines 167-168
JogEnd ==
    /\ wpc = "jog_end"
    /\ enabled' = FALSE
    /\ status' = "idle"
    /\ Finish("returned", FALSE)
    /\ UNCHANGED << queue, stopEvent, homed, error, progress, pos,
                    callerVars, started >>
    /\ UNCHANGED << plan, driver >>

\* A _do_prime that goes on to the start position whatever the stop flag
\* reads after the automatic home.
PrimeCheckIgnoresStop ==
    /\ wpc = "prime_chk"
    /\ wpc' = "prime_tgt"
    /\ UNCHANGED << status, cur, loop, seg, obs, last, done >>
    /\ UNCHANGED << queue, stopEvent, homed, error, progress, pos, enabled,
                    callerVars, started >>
    /\ UNCHANGED << plan, driver >>

\* _do_prime, lines 180-182: the cancellation check after the automatic home
PrimeCheck ==
    /\ wpc = "prime_chk"
    /\ IF stopEvent
       THEN /\ status' = "stopped"
            /\ Finish("returned", TRUE)
       ELSE /\ wpc' = "prime_tgt"
            /\ UNCHANGED << status, cur, loop, seg, obs, last, done >>
    /\ UNCHANGED << queue, stopEvent, homed, error, progress, pos, enabled,
                    callerVars, started >>
    /\ UNCHANGED << plan, driver >>

\* clamp(profile.keyframes[0].pos_mm, 0, travel_mm), lines 184-188
PrimeStart(p) == ClampTravel(Profiles[p].keyframes[1].pos)

\* abs(current_pos_mm - start_pos) <= 0.5, line 191
WithinTolerance(a, b) == 2 * Abs(a - b) <= MmUnits(1)

\* A _do_prime without the tolerance test of lines 191-193.
PrimeTargetAlwaysMoves ==
    /\ wpc = "prime_tgt"
    /\ enabled' = TRUE
    /\ EnterLoop("prime_move",
                 RelativeMoveLoop(pos, PrimeStart(cur.prof) - pos))
    /\ UNCHANGED << status, cur, seg, obs, last, done >>
    /\ UNCHANGED << queue, stopEvent, homed, error, progress, pos,
                    callerVars, started >>
    /\ UNCHANGED << plan, driver >>

\* _do_prime, lines 184-199: the tolerance test and the start of the move
PrimeTarget ==
    /\ wpc = "prime_tgt"
    /\ IF WithinTolerance(pos, PrimeStart(cur.prof))
       THEN /\ status' = "idle"
            /\ Finish("returned", FALSE)
            /\ UNCHANGED enabled
       ELSE /\ enabled' = TRUE
            /\ EnterLoop("prime_move",
                         RelativeMoveLoop(pos, PrimeStart(cur.prof) - pos))
            /\ UNCHANGED << status, cur, seg, obs, last, done >>
    /\ UNCHANGED << queue, stopEvent, homed, error, progress, pos,
                    callerVars, started >>
    /\ UNCHANGED << plan, driver >>

\* _do_prime, lines 200-202
PrimeEnd ==
    /\ wpc = "prime_end"
    /\ enabled' = FALSE
    /\ status' = "idle"
    /\ Finish("returned", FALSE)
    /\ UNCHANGED << queue, stopEvent, homed, error, progress, pos,
                    callerVars, started >>
    /\ UNCHANGED << plan, driver >>

\* times, pos = sample_profile(profile, dt=0.02), line 207
RunSamples(p) == sample_profile(Profiles[p], RunDt)

\* Lines 215-225 for segment i (0-based) of the samples sm: the step count
\* and the direction.
SegmentLoop(sm, i) ==
    LET dp == ClampTravel(sm[i + 2].pos) - ClampTravel(sm[i + 1].pos)
    IN  [rem |-> StepsFor(dp), dir |-> dp > 0, armed |-> FALSE,
         pressed |-> FALSE]

RunSegmentLoop(p, i) == SegmentLoop(RunSamples(p), i)

\* The pulses of segments i, i + 1, ... of the samples sm, positive direction
\* minus negative direction, when every segment emits all of its steps
\* (lines 212-255 with no cancellation, no endstop and no deadline passed).
RECURSIVE SegmentPulses(_, _)
SegmentPulses(sm, i) ==
    IF i + 2 > Len(sm) THEN 0
    ELSE LET lp == SegmentLoop(sm, i)
         IN  (IF lp.dir THEN lp.rem ELSE 0 - lp.rem) + SegmentPulses(sm, i + 1)

\* progress = t1 / total_t, line 267, for segment i (0-based)
SegmentProgress(p, i) ==
    LET sm == RunSamples(p)
    IN  Frac(sm[i + 2].t, Max2(1, sm[Len(sm)].t))

\* _do_run_profile, lines 212-236: the top of the loop over the segments
RunSegment ==
    /\ wpc = "run_seg"
    /\ IF stopEvent
       THEN /\ obs' = [obs EXCEPT !.cancelSeen = TRUE]
            /\ wpc' = "run_final"
            /\ UNCHANGED loop
       ELSE /\ EnterLoop("run_pulse", RunSegmentLoop(cur.prof, seg))
            /\ UNCHANGED obs
    /\ UNCHANGED << queue, stopEvent, prog, cur, seg, callerVars,
                    last, started, done >>
    /\ UNCHANGED << plan, driver >>

\* _do_run_profile, lines 263-267: wait out the segment, update progress
RunSegmentEnd ==
    /\ wpc = "run_segend"
    /\ progress' = SegmentProgress(cur.prof, seg)
    /\ seg' = seg + 1
    /\ wpc' = IF seg + 1 < Len(RunSamples(cur.prof)) - 1
              THEN "run_seg" ELSE "run_final"
    /\ UNCHANGED << queue, stopEvent, status, homed, error, pos, enabled,
                    cur, loop, callerVars, hist >>
    /\ UNCHANGED << plan, driver >>

\* The final planned position, clamped, line 272
RunFinalPos(p) ==
    LET sm == RunSamples(p) IN ClampTravel(sm[Len(sm)].pos)

\* A terminal status that ignores the stop flag.
RunFinalStatusIdle(stop) == "idle"

\* status after line 277, given the stop flag
RunFinalStatus(stop) == IF stop THEN "stopped" ELSE "idle"

\* progress after line 278, given the terminal status and the progress so far
FinalProgress(st, pr) == IF st = "idle" THEN One ELSE pr

\* An end of _do_run_profile that leaves the position where the pulses put it.
RunFinalNoSnap ==
    /\ wpc = "run_final"
    /\ enabled' = FALSE
    /\ status' = RunFinalStatus(stopEvent)
    /\ progress' = FinalProgress(status', progress)
    /\ Finish("returned", stopEvent)
    /\ UNCHANGED << queue, stopEvent, homed, error, pos, callerVars, started >>
    /\ UNCHANGED << plan, driver >>

\* _do_run_profile, lines 269-278
RunFinal ==
    /\ wpc = "run_final"
    /\ pos' = RunFinalPos(cur.prof)
    /\ enabled' = FALSE
    /\ status' = RunFinalStatus(stopEvent)
    /\ progress' = FinalProgress(status', progress)
    /\ Finish("returned", stopEvent)
    /\ UNCHANGED << queue, stopEvent, homed, error, callerVars, started >>
    /\ UNCHANGED << plan, driver >>

\* The worker is inside the try block of _worker_loop and a driver call or a
\* sleep comes next (or, inside a pulse loop, has just been made).
CanFault ==
    \/ wpc \in LoopPcs
    \/ wpc \in {"home_chk", "home_end", "jog_end", "prime_end", "run_final"}
    \/ wpc = "prime_tgt" /\ ~WithinTolerance(pos, PrimeStart(cur.prof))
    \/ wpc \in {"run_seg", "run_segend"} /\ ~stopEvent

\* A worker loop without the except clause: the exception ends the thread.
HandleFaultUncaught ==
    /\ wpc' = "dead"
    /\ UNCHANGED << error, status, enabled, cur, loop, seg, obs, last, done >>

\* The except clause of _worker_loop, lines 136-140
HandleFault ==
    /\ error' = "fault"
    /\ status' = "error"
    /\ enabled' = FALSE
    /\ Finish("fault", FALSE)

\* An exception raised by the next driver call or sleep of the command in
\* execution: the assignments the handler made before that call stand (the
\* position and homed of line 156-157, the final position of line 272),
\* the finally clause of _do_prime runs, and _worker_loop handles it.
Fault ==
    /\ CanFault
    /\ pos' = CASE wpc = "home_end" -> 0
                [] wpc = "run_final" -> RunFinalPos(cur.prof)
                [] OTHER -> pos
    /\ homed' = IF wpc = "home_end" THEN TRUE ELSE homed
    /\ HandleFault
    /\ UNCHANGED << queue, stopEvent, progress, callerVars, started >>
    /\ UNCHANGED << plan, driver >>

Next ==
    \/ enqueue_home
    \/ enqueue_jog
    \/ enqueue_run_profile
    \/ enqueue_prime
    \/ StopSet
    \/ StopEmpty
    \/ StopGetNowait
    \/ WorkerGet
    \/ WorkerClear
    \/ LoopCheck
    \/ LoopPulse
    \/ HomeCheck
    \/ HomeEnd
    \/ JogEnd
    \/ PrimeCheck
    \/ PrimeTarget
    \/ PrimeEnd
    \/ RunSegment
    \/ RunSegmentEnd
    \/ RunFinal
    \/ Fault

Spec == Init /\ [][Next]_vars

\* The controller on a machine without GPIO: _init_driver falls back to the
\* simulator, lines 63-67.
SimInit == ControllerInit /\ plan = NoPlan /\ driver = "sim"

SimSpec == SimInit /\ [][Next]_vars

(***************************************************************************)
(* The planner on its own: a MotionProfile is constructed from keyframes   *)
(* given in any order, and an accepted profile is sampled, or run by the   *)
(* controller.  The keyframes of one profile share their ease.  The        *)
(* positions offered are floats of the model, below, inside and beyond     *)
(* [0, length_mm], two of them within the travel.                          *)
(***************************************************************************)
PlanLength == 2 * TravelUnits + StepUnits

PlanTimes == {0, 1, 3, 3 * RunDt}

PlanPositions == {0 - 1, 1, TravelUnits, PlanLength, 2 * PlanLength}

PlanEases == {LinearEase, BezierEase(0, 3), BezierEase(6, 6)}

\* What the planner is given: keyframes k and a sampling interval d.
PlanInput(k, d) ==
    [stage |-> "input", length |-> PlanLength, given |-> k, keyframes |-> k,
     dt |-> d, samples |-> << >>, pulses |-> 0]

ctl == << queue, stopEvent, status, homed, error, progress, pos, enabled,
         wpc, cur, loop, seg, spc, nextId, stops,
         obs, last, started, done, stopMark, barred, driver >>

\* Any list of up to MaxKfs keyframes, in any order, with an ease that
\* validate_bezier accepts, and any dt from 1 to MaxDt.
PlannerInit ==
    /\ ControllerInit
    /\ driver = "gpio"
    /\ \E n \in 0 .. MaxKfs, e \in PlanEases, d \in 1 .. MaxDt :
          \E tp \in [1 .. n -> PlanTimes \X PlanPositions] :
             /\ validate_bezier(e)
             /\ plan = PlanInput([i \in 1 .. n |->
                                    KfEase(tp[i][1], tp[i][2], e)], d)

\* MotionProfile(length_mm=..., keyframes=...): the validator runs
MotionProfileNew ==
    /\ plan.stage = "input"
    /\ LET v == validate_keyframes(plan.length, plan.given)
       IN  plan' = [plan EXCEPT !.stage = IF v.ok THEN "profile" ELSE "rejected",
                                !.keyframes = v.keyframes]
    /\ UNCHANGED ctl

\* sample_profile(profile, dt)
PlannerSample ==
    /\ plan.stage = "profile"
    /\ plan' = [plan EXCEPT !.stage = "sampled",
                            !.samples = sample_profile(plan, plan.dt)]
    /\ UNCHANGED ctl

\* _do_run_profile(profile), lines 207-255, run to its end with every
\* segment emitting all of its steps: the samples at dt = 0.02 and the net
\* number of pulses.
PlannerRun ==
    /\ plan.stage = "profile"
    /\ LET sm == sample_profile(plan, RunDt)
       IN  plan' = [plan EXCEPT !.stage = "run",
                                !.samples = sm,
                                !.pulses = SegmentPulses(sm, 0)]
    /\ UNCHANGED ctl

PlannerNext == MotionProfileNew \/ PlannerSample \/ PlannerRun

PlannerSpec == PlannerInit /\ [][PlannerNext]_vars

\* The positions of the worker thread inside _worker_loop.
WorkerPositions ==
    {"get", "clear"} \cup LoopPcs
        \cup {"home_chk", "home_end", "jog_end", "prime_chk", "prime_tgt",
               "prime_end", "run_seg", "run_segend", "run_final"}

(***************************************************************************)
(* Properties.                                                             *)
(***************************************************************************)
Idle == wpc = "get"

Ended == wpc = "get" /\ last.id # 0

Returned == Ended /\ last.how = "returned"

Cancelled == Returned /\ last.obs.cancelSeen

\* C1: in every reachable state current_pos_mm lies in [0, travel_mm].
C1_PositionWithinTravel == 0 <= pos /\ pos <= TravelUnits

\* C2: stop() removes all unexecuted commands: a command that was submitted
\* and not yet started when a stop() call began is never started once that
\* call has returned.
C2_StopRemovesUnexecuted ==
    \A i \in 1 .. Len(started) : started[i] \notin barred

\* C3: when stop() is called after the worker has dequeued a command and
\* before the command has ended, every pre-pulse check the command makes from
\* then on observes the cancellation, so it emits at most one further pulse.
C3_StopCancelsCurrent ==
    /\ ~obs.missed /\ obs.pulsesAfterStop <= 1
    /\ ~last.obs.missed /\ last.obs.pulsesAfterStop <= 1

C5_CancelledHomeKeepsHomed ==
    (Cancelled /\ last.type = "home") => homed = last.obs.homedBefore

\* C6 as claimed: a command that ends because of cancellation ends with
\* status stopped if it is a RunProfile and idle if it is a Home, Jog or Prime.
C6_CancelStatusClaimed ==
    Cancelled =>
        status = IF last.type = "run_profile" THEN "stopped" ELSE "idle"

\* C6: a command that ends because of cancellation ends with status stopped
\* if it is a RunProfile, or a Prime that found the stop flag set when its
\* automatic Home returned, and with status idle otherwise; never error.
C6_CancelStatus ==
    Cancelled =>
        status = IF last.type = "run_profile"
                    \/ (last.type = "prime" /\ last.obs.homeCancel)
                 THEN "stopped" ELSE "idle"

C6_Witness ==
    /\ Cancelled
    /\ last.type = "prime"
    /\ last.obs.autoHome
    /\ ~last.obs.homeCancel
    /\ status = "idle"

\* C7: a RunProfile that ends with status stopped has progress below 1.
C7_StoppedProgressBelowOne ==
    (Returned /\ last.type = "run_profile" /\ status = "stopped")
        => FracLess(progress, One)

\* C8: while a RunProfile executes (status running), progress never decreases.
C8_ProgressMonotone ==
    [][(cur.type = "run_profile" /\ status = "running")
         => ~FracLess(progress', progress)]_vars

\* C9: whenever the worker waits on the command queue the driver is disabled.
C9_DisabledWhenIdle == Idle => ~enabled

C9_Witness == Cancelled /\ last.type = "home" /\ ~homed /\ ~enabled

\* C10: a runtime fault leaves error set, status error and the driver
\* disabled, and does not kill the worker: the worker thread is always at a
\* position of _worker_loop, so that a command submitted after a fault is
\* dequeued and its handler runs.
C10_FaultHandled ==
    /\ (Ended /\ last.how = "fault")
          => (error # "none" /\ status = "error" /\ ~enabled)
    /\ wpc \in WorkerPositions

C10_Witness == wpc = "clear" /\ status = "error" /\ error = "fault" /\ ~enabled

\* C11: a RunProfile that completes uncancelled ends with current_pos_mm at
\* the planner's last sampled position, clamped to the travel, whatever the
\* pulses emitted before; status is idle and progress is 1.
C11_RunEndsAtPlan ==
    [][(wpc = "run_final" /\ wpc' = "get" /\ last'.how = "returned"
            /\ ~last'.obs.cancelSeen)
         => /\ pos' = ClampTravel(RunSamples(cur.prof)[Len(RunSamples(cur.prof))].pos)
            /\ status' = "idle"
            /\ progress' = One]_vars

\* An uncancelled run has ended between two steps, where no pulse leads.
C11_Witness ==
    /\ Returned
    /\ last.type = "run_profile"
    /\ ~last.obs.cancelSeen
    /\ status = "idle"
    /\ progress = One
    /\ pos = 2 * StepUnits - 1

\* C12: a Home command that completes uncancelled ends with current_pos_mm = 0,
\* homed set, the driver disabled and status idle; and a Home emits a pulse
\* toward min only in an iteration whose read of the min endstop returned not
\* pressed, so none when the endstop reads pressed throughout.
C12_HomeCompletes ==
    [][/\ (wpc = "home_end" /\ cur.type = "home" /\ wpc' = "get"
              /\ last'.how = "returned" /\ ~last'.obs.cancelSeen)
           => (pos' = 0 /\ homed' /\ ~enabled' /\ status' = "idle")
       /\ (LoopPulse /\ cur.type = "home" /\ ~loop.dir)
           => (wpc \in {"seek1", "seek2"} /\ loop.armed /\ ~loop.pressed)]_vars

C12_Witness ==
    /\ Returned
    /\ last.type = "home"
    /\ ~last.obs.cancelSeen
    /\ ~last.obs.homedBefore
    /\ homed
    /\ pos = 0
    /\ ~enabled
    /\ status = "idle"

\* C13: in every motion primitive a pulse is emitted only after the checks of
\* its iteration read the endstop of the direction of travel as not pressed;
\* a check that ends a loop early on an endstop (or a deadline) changes neither
\* status nor error nor the position, and a command that returns never shows
\* error, so later commands proceed.
C13_EndstopRespected ==
    /\ [](Returned => (status # "error" /\ error = "none"))
    /\ [][/\ LoopPulse => (loop.armed /\ ~loop.pressed)
          /\ (wpc \in LoopPcs /\ ~loop.armed /\ ~stopEvent
                 /\ wpc' = AfterLoopPc(wpc))
              => UNCHANGED << status, error, pos >>]_vars

\* A jog in the positive direction, the first command, has reached its end
\* without a pulse and without seeing a stop: the max endstop read pressed.
C13_Witness ==
    /\ wpc = "jog_end"
    /\ cur.id = 1
    /\ cur.dist > 0
    /\ pos = 0
    /\ ~stopEvent
    /\ ~obs.cancelSeen
    /\ status = "jogging"
    /\ error = "none"

\* C14: a Prime that starts homed and within 0.5 mm of the clamped position
\* of the profile's first keyframe never enables the driver and emits no
\* pulse: its next step returns to the queue with current_pos_mm and homed
\* unchanged, the driver disabled and status idle.
C14_PrimeWithinTolerance ==
    /\ []((wpc = "prime_tgt" /\ obs.homedBefore) => (~enabled /\ homed))
    /\ [][(wpc = "prime_tgt" /\ obs.homedBefore /\ wpc' # wpc
             /\ 2 * Abs(pos - ClampTravel(Profiles[cur.prof].keyframes[1].pos))
                   <= MmUnits(1))
          => /\ wpc' = "get"
             /\ last'.how = "returned"
             /\ pos' = pos
             /\ homed' = homed
             /\ ~enabled'
             /\ status' = "idle"]_vars

\* A Prime that started homed is at the tolerance test, within tolerance.
C14_Witness ==
    /\ wpc = "prime_tgt"
    /\ obs.homedBefore
    /\ status = "priming"
    /\ ~enabled
    /\ 2 * Abs(pos - PrimeStart(cur.prof)) <= MmUnits(1)

\* C15: the worker is the sole writer of the controller state: a step of
\* enqueue_home, enqueue_jog, enqueue_run_profile, enqueue_prime or stop()
\* leaves current_pos_mm, status, homed, progress and error unchanged, and
\* error is cleared only by the worker starting the next command.
C15_WorkerSoleWriter ==
    [][/\ (nextId' # nextId \/ spc' # spc)
           => UNCHANGED << pos, status, homed, progress, error >>
       /\ (error # "none" /\ error' = "none") => wpc = "clear"]_vars

\* A stop() call is in progress after a fault, and the error is still shown.
C15_Witness ==
    /\ spc = "empty"
    /\ stopEvent
    /\ wpc = "get"
    /\ error = "fault"
    /\ status = "error"

\* C16: for a valid profile and dt > 0, sample_profile returns samples whose
\* times start at 0 and strictly increase, whose last time is at least the
\* last keyframe's t and whose last position is the last keyframe's pos_mm.
C16_SamplesWellFormed ==
    plan.stage = "sampled" =>
        LET sm == plan.samples
            kl == plan.keyframes[Len(plan.keyframes)]
        IN  /\ Len(sm) >= 1
            /\ sm[1].t = 0
            /\ \A i \in 1 .. Len(sm) - 1 : sm[i].t < sm[i + 1].t
            /\ sm[Len(sm)].t >= kl.t
            /\ sm[Len(sm)].pos = kl.pos

\* C17: every position sample_profile emits lies between the smallest and
\* the largest keyframe position, for linear and cubic-bezier easing.
C17_SamplesWithinKeyframes ==
    plan.stage = "sampled" =>
        \A i \in 1 .. Len(plan.samples) :
            \E j, k \in 1 .. Len(plan.keyframes) :
                /\ plan.keyframes[j].pos <= plan.samples[i].pos
                /\ plan.samples[i].pos <= plan.keyframes[k].pos

\* C18: MotionProfile construction is rejected exactly when there are fewer
\* than two keyframes, two keyframes have equal times, or a position is
\* outside [0, length_mm]; otherwise the stored keyframes are those given,
\* sorted by strictly increasing t.
C18_ProfileValidation ==
    plan.stage \in {"rejected", "profile", "sampled"} =>
        LET g == plan.given
            k == plan.keyframes
            invalid ==
                \/ Len(g) < 2
                \/ \E i, j \in 1 .. Len(g) : i # j /\ g[i].t = g[j].t
                \/ \E i \in 1 .. Len(g) : g[i].pos < 0 \/ g[i].pos > plan.length
        IN  /\ plan.stage = "rejected" <=> invalid
            /\ plan.stage # "rejected" =>
                  /\ Len(k) = Len(g)
                  /\ {k[i] : i \in 1 .. Len(k)} = {g[i] : i \in 1 .. Len(g)}
                  /\ \A i \in 1 .. Len(k) - 1 : k[i].t < k[i + 1].t

\* A profile was accepted whose keyframes were given out of order.
C18_Witness ==
    /\ plan.stage = "profile"
    /\ Len(plan.given) = 3
    /\ plan.given[1].t > plan.given[2].t
    /\ plan.keyframes # plan.given

\* The iterations a loop lp in execution at pc has left, counted in worker
\* steps (the checks and the pulse of an iteration are one step each).
LoopWork(pc, lp) ==
    IF pc \in LoopPcs
    THEN 2 * lp.rem - (IF lp.armed THEN 1 ELSE 0)
    ELSE 0

\* range(len(times) - 1) in _do_run_profile: the segments of profile p
SegmentsOf(p) == Len(RunSamples(p)) - 1

\* No run has more segments than this: the sample times start at 0 and
\* advance by dt up to the last keyframe's t, and one sample may be appended.
SegmentsMax(p) ==
    Profiles[p].keyframes[Len(Profiles[p].keyframes)].t \div RunDt + 1

\* A count of the statements of the handler of command c still ahead of a
\* worker at pc in segment sg (for a run, with every segment it might still
\* have): along every path through _do_home, _do_jog, _do_prime and
\* _do_run_profile the count falls.
Stage(pc, c, sg) ==
    CASE pc = "seek1" -> 9
      [] pc = "home_chk" -> 8
      [] pc = "backoff" -> 7
      [] pc = "seek2" -> 6
      [] pc = "home_end" -> 5
      [] pc = "prime_chk" -> 4
      [] pc = "prime_tgt" -> 3
      [] pc = "prime_move" -> 2
      [] pc = "prime_end" -> 1
      [] pc = "jog_move" -> 2
      [] pc = "jog_end" -> 1
      [] pc = "run_seg" -> 3 * (SegmentsMax(c.prof) - sg) + 1
      [] pc = "run_pulse" -> 3 * (SegmentsMax(c.prof) - sg)
      [] pc = "run_segend" -> 3 * (SegmentsMax(c.prof) - sg) - 1
      [] pc = "run_final" -> 1
      [] pc = "clear" ->
            10 + (IF c.type = "run_profile"
                  THEN 3 * SegmentsMax(c.prof) ELSE 0)
      [] OTHER -> 0

\* C19: every dequeued command terminates.  Each step of the worker inside
\* a command either stays in its pulse loop and leaves it fewer iterations,
\* or moves on to a position with fewer statements ahead, and only the
\* wait on the queue has none ahead; every pulse loop in execution has
\* between one iteration and the step ceiling of the first seek left
\* (travel_mm + 10 mm), the re-approach no more than its own (10 mm),
\* whatever the endstops read, and a run at the top of its loop has a
\* segment left.
C19_CommandsTerminate ==
    /\ [](/\ wpc \in LoopPcs =>
                /\ loop.rem >= 1
                /\ loop.rem <= SeekSteps(TravelMm + HomeExtraMm)
                /\ wpc = "seek2" => loop.rem <= SeekSteps(ReapproachMm)
          /\ wpc = "run_seg" =>
                /\ seg < SegmentsOf(cur.prof)
                /\ SegmentsOf(cur.prof) <= SegmentsMax(cur.prof))
    /\ [][(wpc # "get" /\ (wpc' # wpc \/ loop' # loop \/ seg' # seg))
             => IF wpc' = wpc /\ seg' = seg
                THEN LoopWork(wpc', loop') < LoopWork(wpc, loop)
                ELSE /\ Stage(wpc', cur', seg') < Stage(wpc, cur, seg)
                     /\ Stage(wpc', cur', seg') = 0 <=> wpc' = "get"]_vars

\* The first seek of a Home is about to make the last pulse its step
\* ceiling allows: the min endstop never read pressed.
C19_Witness ==
    /\ wpc = "seek1"
    /\ cur.type = "home"
    /\ loop.rem = 1
    /\ loop.armed
    /\ ~stopEvent

\* C20: the worker clears the cancellation flag at the top of each command,
\* so a command observes a cancellation only when a stop() call set the flag
\* after the command was dequeued; a command that returns without such a
\* call completed normally (status "idle").
C20_StaleStopNotObserved ==
    /\ obs.cancelSeen => obs.stopInCmd
    /\ Ended => (last.obs.cancelSeen => last.obs.stopInCmd)
    /\ (Returned /\ ~last.obs.stopInCmd) => status = "idle"

\* A stop() call has completed, having set the flag before the first
\* command was dequeued; that command has passed its pre-pulse checks with
\* the flag clear and no stop() call was made since.
C20_Witness ==
    /\ stops
    /\ spc = "idle"
    /\ cur.id = 1
    /\ wpc \in LoopPcs
    /\ loop.armed
    /\ ~stopEvent
    /\ ~obs.stopInCmd
    /\ ~obs.cancelSeen

\* C21: Prime on an unhomed controller performs Home first, and when the
\* stop flag is set as that Home returns, Prime ends there with status
\* "stopped", the position as the Home left it (no pulse toward the start
\* position) and the driver disabled.
C21_PrimeStoppedAfterHome ==
    /\ [](/\ (cur.type = "prime" /\ wpc \in {"seek1", "home_chk", "backoff",
                                              "seek2", "home_end"})
                => (obs.autoHome /\ ~obs.homedBefore)
          /\ wpc = "prime_chk" => (obs.autoHome /\ ~enabled)
          /\ (cur.type = "prime" /\ wpc \in {"prime_tgt", "prime_move",
                                              "prime_end"}
                 /\ ~obs.homedBefore) => obs.autoHome)
    /\ [][/\ (wpc = "clear" /\ cur.type = "prime" /\ ~homed /\ wpc' # wpc)
                => wpc' = "seek1"
          /\ (wpc = "prime_chk" /\ stopEvent /\ wpc' # wpc)
                => /\ wpc' = "get"
                   /\ last'.how = "returned"
                   /\ status' = "stopped"
                   /\ pos' = pos
                   /\ ~enabled']_vars

\* A Prime that homed first has ended stopped, the driver disabled.
C21_Witness ==
    /\ Returned
    /\ last.type = "prime"
    /\ last.obs.autoHome
    /\ last.obs.homeCancel
    /\ status = "stopped"
    /\ ~enabled

\* C22: a Prime that completes without cancellation and whose move was not
\* cut short by an endstop leaves homed true and the position within 0.5 mm
\* of the profile's first keyframe position clamped to the travel: Prime
\* only goes for the start position when homed, a move that makes all its
\* pulses (or needs none) ends within the tolerance, and the return from
\* Prime leaves the position and homed as they are.
C22_PrimeReachesStart ==
    /\ []((cur.type = "prime" /\ wpc \in {"prime_tgt", "prime_move",
                                           "prime_end"}) => homed)
    /\ [][/\ (/\ cur.type = "prime"
              /\ \/ wpc = "prime_move" /\ loop.armed /\ loop.rem = 1
                 \/ wpc = "prime_tgt"
              /\ \/ wpc' = "prime_end"
                 \/ wpc' = "get" /\ last'.how = "returned")
                => /\ 2 * Abs(pos' - ClampTravel(
                                  Profiles[cur.prof].keyframes[1].pos))
                        <= MmUnits(1)
                   /\ homed'
          /\ (wpc = "prime_end" /\ wpc' = "get" /\ last'.how = "returned")
                => (pos' = pos /\ homed' /\ status' = "idle")]_vars

\* A Prime that homed first and then moved has completed, uncancelled, at
\* the start position 1 mm out.
C22_Witness ==
    /\ Returned
    /\ last.type = "prime"
    /\ last.obs.autoHome
    /\ ~last.obs.cancelSeen
    /\ ~last.obs.stopInCmd
    /\ homed
    /\ pos = MmUnits(1)
    /\ status = "idle"

\* C23: whenever the driver is enabled or a pulse is about to be emitted,
\* status is one of "homing", "jogging", "priming", "running".
C23_StatusReflectsActivity ==
    (enabled \/ (wpc \in LoopPcs /\ loop.armed))
        => status \in {"homing", "jogging", "priming", "running"}

\* C24: homed becomes true only when a seek of that Home read the min
\* endstop as pressed: on the simulator driver, whose min endstop never
\* reads pressed, no Home marks the controller homed.
C24_HomedOnlyIfPressed == driver = "sim" => ~homed

\* C25: a RunProfile that ends with status "stopped" leaves current_pos_mm at
\* the value the last emitted pulse gave it; the end of the run does not move
\* it to the final planned position.
C25_CancelledRunKeepsPos ==
    [][(/\ wpc = "run_final"
        /\ wpc' = "get"
        /\ last'.how = "returned"
        /\ status' = "stopped") => pos' = pos]_vars

\* C26: when a RunProfile runs to its end with every segment emitting all of
\* its steps, the net number of pulses differs by at most one from
\* round((positions[last] - positions[first]) * steps_per_mm).  Stated for
\* profiles whose samples lie within the travel, where the clamp of line 218
\* changes nothing.
C26_RoundingDoesNotAccumulate ==
    (/\ plan.stage = "run"
     /\ \A i \in 1 .. Len(plan.samples) :
           plan.samples[i].pos \in 0 .. TravelUnits)
        => LET d == plan.samples[Len(plan.samples)].pos - plan.samples[1].pos
               commanded == IF d < 0 THEN 0 - StepsFor(d) ELSE StepsFor(d)
           IN  Abs(plan.pulses - commanded) <= 1

====
